---- MODULE Spec2Model ----
(***************************************************************************)
(* A model of the LicenseContract CIS-2 NFT ledger (src/src/lib.rs).       *)
(*                                                                         *)
(* The contract state (struct State) is the variable host; every receive   *)
(* entrypoint is one action that runs the whole handler on host and        *)
(* leaves its outcome in last.  A rejected call (the handler returned      *)
(* Err) leaves host as it was when the call began.  Two handlers call out  *)
(* and are held in a frame on stack meanwhile.  transfer calls the receive *)
(* hook of a recipient contract: while its frame waits in the hook any     *)
(* entrypoint may be called re-entrantly by a contract.  upgrade calls the *)
(* migration entrypoint of the module it switched to: while its frame      *)
(* waits the instance runs that module, whose code is not in lib.rs and    *)
(* which may write the contract state and switch the module again, also    *)
(* back to the module of lib.rs.                                           *)
(***************************************************************************)
EXTENDS Integers, Sequences, FiniteSets, TLC

\* burned is a history variable: for each token id that was burned by a call
\* whose effects were kept, the owner the last such burn took it from and
\* whether the id was minted again since.  foreign is a history variable too:
\* the contract state holds a write made by the migration entrypoint of
\* another module, not by the code of lib.rs.
VARIABLES host, stack, last, calls, module, licenses, burned, foreign

vars == <<host, stack, last, calls, module, licenses, burned, foreign>>

----------------------------------------------------------------------------
(* Domains the inputs are drawn from.                                      *)

Accounts == {"acc1", "acc2"}
Contracts == {"con1"}
\* Address is the tagged union {Account, Contract}: the two sets are disjoint.
Address == Accounts \cup Contracts

\* ctx.init_origin() of contract_init, which is also ctx.owner() of every
\* later call (the account that created the instance).
InitOrigin == "acc1"

\* The module the instance is created from, and the results of the host's
\* upgrade and of a contract invocation.
ThisModule == "module0"
UpgradeResults == {"Ok", "MissingModule", "MissingContract", "UnsupportedModuleVersion"}
InvokeResults == {"Ok", "InvokeContractError"}

\* Token ids are u32 values; 1 and 256 byte-swap to 16777216 and 65536.
TokenIds == {1, 256}

\* ContractTokenAmount = TokenAmountU8; 2 stands for every amount above 1.
Amounts == {0, 1, 2}

\* The number of steps in one run.  Every call of mint, burn and
\* setImplementors is one step, and so is every entry of the list of a
\* transfer or updateOperator call (an updateOperator call with an empty list
\* is one step), every upgrade call and every write of a migration
\* entrypoint.  It bounds the length of the lists and the depth of re-entrant
\* calls too.
MaxCalls == 3

----------------------------------------------------------------------------
(* Maps (StateMap) as functions on the set of their keys.                  *)

EmptyMap == [k \in {} |-> k]

MapInsert(m, k, v) == [x \in DOMAIN m \cup {k} |-> IF x = k THEN v ELSE m[x]]

MapRemove(m, k) == [x \in DOMAIN m \ {k} |-> m[x]]

\* AddressState::empty
AddressStateEmpty == [owned_tokens |-> {}, operators |-> {}]

\* self.state.entry(k).or_insert_with(|| AddressState::empty(..))
EntryOrInsert(m, k) == IF k \in DOMAIN m THEN m ELSE MapInsert(m, k, AddressStateEmpty)

\* State::empty
StateEmpty(owner) ==
    [state        |-> EmptyMap,
     all_tokens   |-> {},
     implementors |-> EmptyMap,
     metadata     |-> EmptyMap,
     operators    |-> {},
     owner        |-> owner]

\* ContractResult<()>: err is "Ok" or the error, st the state the method left.
Ok(st) == [err |-> "Ok", st |-> st]
Err(e, st) == [err |-> e, st |-> st]

----------------------------------------------------------------------------
(* build_token_metadata_url                                                *)

SUPPORTS_STANDARDS == {"CIS-0", "CIS-2"}

TOKEN_METADATA_BASE_URL == " https://web3id.backend.aesirx.io:8001/licenses/"

\* u32::swap_bytes
swap_bytes(x) ==
    LET b0 == x % 256
        b1 == (x \div 256) % 256
        b2 == (x \div 65536) % 256
        b3 == (x \div 16777216) % 256
    IN  b0 * 16777216 + b1 * 65536 + b2 * 256 + b3

DigitChar(d) ==
    CASE d = 0 -> "0" [] d = 1 -> "1" [] d = 2 -> "2" [] d = 3 -> "3"
      [] d = 4 -> "4" [] d = 5 -> "5" [] d = 6 -> "6" [] d = 7 -> "7"
      [] d = 8 -> "8" [] d = 9 -> "9"

\* The decimal digits of n, at least width of them (format!("{:08}", n)).
RECURSIVE FormatPadded(_, _)
FormatPadded(n, width) ==
    IF n < 10 /\ width <= 1
    THEN DigitChar(n)
    ELSE FormatPadded(n \div 10, width - 1) \o DigitChar(n % 10)

build_token_metadata_url(token_id) ==
    TOKEN_METADATA_BASE_URL \o FormatPadded(swap_bytes(token_id), 8)

----------------------------------------------------------------------------
(* impl State                                                              *)

contains_token(self, token_id) == token_id \in self.all_tokens

\* burn that leaves the metadata entry of the burned token behind.
burn_keeps_metadata(self, token, owner) ==
    IF token \notin self.all_tokens
    THEN Err("InvalidTokenId", self)
    ELSE IF owner \in DOMAIN self.state /\ token \in self.state[owner].owned_tokens
         THEN Ok([self EXCEPT !.state[owner].owned_tokens = @ \ {token},
                              !.all_tokens = @ \ {token}])
         ELSE Err("InsufficientFunds", self)

\* burn that leaves the id of the burned token in all_tokens.
burn_keeps_id(self, token, owner) ==
    IF ~contains_token(self, token)
    THEN Err("InvalidTokenId", self)
    ELSE IF owner \in DOMAIN self.state /\ token \in self.state[owner].owned_tokens
         THEN Ok([self EXCEPT !.state[owner].owned_tokens = @ \ {token},
                              !.metadata = MapRemove(@, token)])
         ELSE Err("InsufficientFunds", self)

\* burn that does not check that owner holds the token.
burn_any_owner(self, token, owner) ==
    IF token \notin self.all_tokens
    THEN Err("InvalidTokenId", self)
    ELSE Ok([self EXCEPT
               !.state = [a \in DOMAIN @ |-> [@[a] EXCEPT !.owned_tokens = @ \ {token}]],
               !.all_tokens = @ \ {token},
               !.metadata = MapRemove(@, token)])

\* State::burn
burn(self, token, owner) ==
    IF ~contains_token(self, token)
    THEN Err("InvalidTokenId", self)
    ELSE IF owner \in DOMAIN self.state
         THEN IF token \in self.state[owner].owned_tokens
              THEN Ok([self EXCEPT
                         !.state[owner].owned_tokens = @ \ {token},
                         !.all_tokens = @ \ {token},
                         !.metadata = MapRemove(@, token)])
              ELSE Err("InsufficientFunds", self)
         ELSE Err("InsufficientFunds", self)

\* mint that also stores the owner of the new token as the contract owner.
mint_sets_owner(self, token, owner) ==
    IF token \in self.all_tokens
    THEN Err("TokenIdAlreadyExists", self)
    ELSE LET metadata == [url |-> build_token_metadata_url(token), hash |-> ""]
             st1 == [self EXCEPT
                       !.all_tokens = @ \cup {token},
                       !.metadata = MapInsert(@, token, metadata),
                       !.state = EntryOrInsert(@, owner),
                       !.owner = owner]
         IN  Ok([st1 EXCEPT !.state[owner].owned_tokens = @ \cup {token}])

\* mint that does not check that the token id is new.
mint_overwrite(self, token, owner) ==
    LET metadata == [url |-> build_token_metadata_url(token), hash |-> ""]
        st1 == [self EXCEPT
                  !.all_tokens = @ \cup {token},
                  !.metadata = MapInsert(@, token, metadata),
                  !.state = EntryOrInsert(@, owner)]
    IN  Ok([st1 EXCEPT !.state[owner].owned_tokens = @ \cup {token}])

\* mint that derives the metadata URL from the owner it mints to.
mint_url_of_owner(self, token, owner) ==
    IF token \in self.all_tokens
    THEN Err("TokenIdAlreadyExists", self)
    ELSE LET metadata == [url |-> TOKEN_METADATA_BASE_URL \o owner, hash |-> ""]
             st1 == [self EXCEPT
                       !.all_tokens = @ \cup {token},
                       !.metadata = MapInsert(@, token, metadata),
                       !.state = EntryOrInsert(@, owner)]
         IN  Ok([st1 EXCEPT !.state[owner].owned_tokens = @ \cup {token}])

\* State::mint
mint(self, token, owner) ==
    IF token \in self.all_tokens
    THEN Err("TokenIdAlreadyExists", self)
    ELSE LET metadata == [url |-> build_token_metadata_url(token), hash |-> ""]
             st1 == [self EXCEPT
                       !.all_tokens = @ \cup {token},
                       !.metadata = MapInsert(@, token, metadata),
                       !.state = EntryOrInsert(@, owner)]
         IN  Ok([st1 EXCEPT !.state[owner].owned_tokens = @ \cup {token}])

\* State::balance
balance(self, token_id, address) ==
    IF ~contains_token(self, token_id)
    THEN [err |-> "InvalidTokenId", amount |-> 0]
    ELSE [err |-> "Ok",
          amount |-> IF address \in DOMAIN self.state
                     THEN (IF token_id \in self.state[address].owned_tokens THEN 1 ELSE 0)
                     ELSE 0]

\* State::is_operator
is_operator(self, address, owner) ==
    IF owner \in DOMAIN self.state
    THEN address \in self.state[owner].operators
    ELSE FALSE

\* transfer that adds the token to the receiver and leaves it with the sender.
transfer_keeps_from(self, token_id, amount, from, to) ==
    IF token_id \notin self.all_tokens
    THEN Err("InvalidTokenId", self)
    ELSE IF amount = 0
    THEN Ok(self)
    ELSE IF amount # 1 \/ from \notin DOMAIN self.state
    THEN Err("InsufficientFunds", self)
    ELSE IF token_id \notin self.state[from].owned_tokens
    THEN Err("InsufficientFunds", self)
    ELSE LET st2 == [self EXCEPT !.state = EntryOrInsert(@, to)]
         IN  Ok([st2 EXCEPT !.state[to].owned_tokens = @ \cup {token_id}])

\* transfer without the early return for a zero amount: the token moves.
transfer_zero_moves(self, token_id, amount, from, to) ==
    IF token_id \notin self.all_tokens
    THEN Err("InvalidTokenId", self)
    ELSE IF amount > 1 \/ from \notin DOMAIN self.state
    THEN Err("InsufficientFunds", self)
    ELSE IF token_id \notin self.state[from].owned_tokens
    THEN Err("InsufficientFunds", self)
    ELSE LET st1 == [self EXCEPT !.state[from].owned_tokens = @ \ {token_id}]
             st2 == [st1 EXCEPT !.state = EntryOrInsert(@, to)]
         IN  Ok([st2 EXCEPT !.state[to].owned_tokens = @ \cup {token_id}])

\* State::transfer
transfer(self, token_id, amount, from, to) ==
    IF ~contains_token(self, token_id)
    THEN Err("InvalidTokenId", self)
    ELSE IF amount = 0
    THEN Ok(self)
    ELSE IF amount # 1
    THEN Err("InsufficientFunds", self)
    ELSE IF from \notin DOMAIN self.state
    THEN Err("InsufficientFunds", self)
    ELSE IF token_id \notin self.state[from].owned_tokens
    THEN Err("InsufficientFunds", self)
    ELSE LET st1 == [self EXCEPT !.state[from].owned_tokens = @ \ {token_id}]
             st2 == [st1 EXCEPT !.state = EntryOrInsert(@, to)]
         IN  Ok([st2 EXCEPT !.state[to].owned_tokens = @ \cup {token_id}])

\* add_operator that writes into the record of the operator it is given.
add_operator_of_operator(self, owner, operator) ==
    LET st1 == [self EXCEPT !.state = EntryOrInsert(@, operator)]
    IN  [st1 EXCEPT !.state[operator].operators = @ \cup {owner}]

\* add_operator that registers the operator in the global operator set, as
\* State::add_global_operator does.
add_operator_global(self, owner, operator) ==
    [self EXCEPT !.operators = @ \cup {operator}]

\* State::add_operator
add_operator(self, owner, operator) ==
    LET st1 == [self EXCEPT !.state = EntryOrInsert(@, owner)]
    IN  [st1 EXCEPT !.state[owner].operators = @ \cup {operator}]

\* remove_operator that empties the operator set of the owner.
remove_operator_clears(self, owner, operator) ==
    IF owner \in DOMAIN self.state
    THEN [self EXCEPT !.state[owner].operators = {}]
    ELSE self

\* State::remove_operator
remove_operator(self, owner, operator) ==
    IF owner \in DOMAIN self.state
    THEN [self EXCEPT !.state[owner].operators = @ \ {operator}]
    ELSE self

\* State::have_implementors
have_implementors(self, std_id) ==
    IF std_id \in DOMAIN self.implementors
    THEN [kind |-> "SupportBy", addresses |-> self.implementors[std_id]]
    ELSE [kind |-> "NoSupport", addresses |-> <<>>]

\* set_implementors that appends the new list to the stored one.
set_implementors_merges(self, std_id, implementors) ==
    [self EXCEPT !.implementors =
        MapInsert(@, std_id, IF std_id \in DOMAIN @ THEN @[std_id] \o implementors
                             ELSE implementors)]

\* State::set_implementors
set_implementors(self, std_id, implementors) ==
    [self EXCEPT !.implementors = MapInsert(@, std_id, implementors)]

----------------------------------------------------------------------------
(* The logger of one call.  A call is handed a logger lg = [fail_at, err]: *)
(* its fail_at-th log fails with err (LogError::Full or ::Malformed mapped *)
(* by From<LogError>), every other log appends the event; fail_at = 0 is a *)
(* logger that never fails.                                                *)

LogErrors == {"LogFull", "LogMalformed"}

NeverFails == [fail_at |-> 0, err |-> "LogFull"]

\* The loggers of a call that logs at most n events.
Loggers(n) == {NeverFails} \cup {[fail_at |-> k, err |-> e] : k \in 1..n, e \in LogErrors}

\* The loggers as one iteration of a loop sees them, events being logged so
\* far: the next log succeeds or is the one that fails.
LoggersAt(events) ==
    {NeverFails} \cup {[fail_at |-> Len(events) + 1, err |-> e] : e \in LogErrors}

\* logger.log(&event)?  on the events logged so far
LogFails(lg, events) == Len(events) + 1 = lg.fail_at

\* What a handler hands back: its result, the state it left and its events.
Done(err, st, events) == [err |-> err, st |-> st, events |-> events]

----------------------------------------------------------------------------
(* The receive entrypoints as functions of (state, sender, parameter,      *)
(* logger).                                                                *)

\* Address::matches_account
matches_account(address, account) == address \in Accounts /\ address = account

\* contract_burn that looks the token up before it checks the sender.
contract_burn_token_first(st, sender, p, lg) ==
    IF ~contains_token(st, p.token_id)
    THEN Done("InvalidTokenId", st, <<>>)
    ELSE IF p.owner # sender
    THEN Done("Unauthorized", st, <<>>)
    ELSE LET r == burn(st, p.token_id, p.owner)
             ev == [tag |-> "Burn", token_id |-> p.token_id, amount |-> p.amount,
                    owner |-> p.owner]
         IN  IF r.err # "Ok" THEN Done(r.err, r.st, <<>>)
             ELSE IF LogFails(lg, <<>>) THEN Done(lg.err, r.st, <<>>)
             ELSE Done("Ok", r.st, <<ev>>)

\* contract_burn that treats amount 0 as State::transfer does: nothing to do.
contract_burn_zero_noop(st, sender, p, lg) ==
    IF p.owner # sender
    THEN Done("Unauthorized", st, <<>>)
    ELSE IF p.amount = 0
    THEN Done("Ok", st, <<>>)
    ELSE LET r == burn(st, p.token_id, p.owner)
             ev == [tag |-> "Burn", token_id |-> p.token_id, amount |-> p.amount,
                    owner |-> p.owner]
         IN  IF r.err # "Ok" THEN Done(r.err, r.st, <<>>)
             ELSE IF LogFails(lg, <<>>) THEN Done(lg.err, r.st, <<>>)
             ELSE Done("Ok", r.st, <<ev>>)

\* contract_burn without the check that the sender is the owner it names.
contract_burn_any_sender(st, sender, p, lg) ==
    LET r == burn(st, p.token_id, p.owner)
        ev == [tag |-> "Burn", token_id |-> p.token_id, amount |-> p.amount,
               owner |-> p.owner]
    IN  IF r.err # "Ok" THEN Done(r.err, r.st, <<>>)
        ELSE IF LogFails(lg, <<>>) THEN Done(lg.err, r.st, <<>>)
        ELSE Done("Ok", r.st, <<ev>>)

\* contract_burn
contract_burn(st, sender, p, lg) ==
    IF p.owner # sender
    THEN Done("Unauthorized", st, <<>>)
    ELSE LET r == burn(st, p.token_id, p.owner)
             ev == [tag |-> "Burn", token_id |-> p.token_id, amount |-> p.amount,
                    owner |-> p.owner]
         IN  IF r.err # "Ok" THEN Done(r.err, r.st, <<>>)
             ELSE IF LogFails(lg, <<>>) THEN Done(lg.err, r.st, <<>>)
             ELSE Done("Ok", r.st, <<ev>>)

\* contract_mint without its authorization check.
contract_mint_any_sender(st, sender, p, lg) ==
    LET r == mint(st, p.token, p.owner)
        ev1 == [tag |-> "Mint", token_id |-> p.token, amount |-> 1, owner |-> p.owner]
        ev2 == [tag |-> "TokenMetadata", token_id |-> p.token,
                url |-> build_token_metadata_url(p.token)]
    IN  IF r.err # "Ok" THEN Done(r.err, r.st, <<>>)
        ELSE IF LogFails(lg, <<>>) THEN Done(lg.err, r.st, <<>>)
        ELSE IF LogFails(lg, <<ev1>>) THEN Done(lg.err, r.st, <<ev1>>)
        ELSE Done("Ok", r.st, <<ev1, ev2>>)

\* contract_mint
contract_mint(st, sender, p, lg) ==
    IF sender # st.owner /\ sender \notin st.operators
    THEN Done("Unauthorized", st, <<>>)
    ELSE LET metadata_url == build_token_metadata_url(p.token)
             token_owner == p.owner
             r == mint(st, p.token, token_owner)
             ev1 == [tag |-> "Mint", token_id |-> p.token, amount |-> 1,
                     owner |-> token_owner]
             ev2 == [tag |-> "TokenMetadata", token_id |-> p.token,
                     url |-> metadata_url]
         IN  IF r.err # "Ok" THEN Done(r.err, r.st, <<>>)
             ELSE IF LogFails(lg, <<>>) THEN Done(lg.err, r.st, <<>>)
             ELSE IF LogFails(lg, <<ev1>>) THEN Done(lg.err, r.st, <<ev1>>)
             ELSE Done("Ok", r.st, <<ev1, ev2>>)

\* The guard as the CIS-2 rule has it: the sender is the from address.
transfer_guard_sender(st, sender, from) == from = sender

\* The guard of one transfer entry (contract_transfer, lines 648-650).
transfer_guard(st, sender, from) == from = st.owner

\* A loop that drops the error of State::transfer and goes on to the next entry.
transfer_entry_skips_failed(st, events, sender, e, lg) ==
    IF ~transfer_guard(st, sender, e.from)
    THEN Done("Unauthorized", st, events)
    ELSE LET r == transfer(st, e.token_id, e.amount, e.from, e.to)
             ev == [tag |-> "Transfer", token_id |-> e.token_id, amount |-> e.amount,
                    from |-> e.from, to |-> e.to]
         IN  IF r.err # "Ok" THEN Done("Ok", r.st, events)
             ELSE IF LogFails(lg, events) THEN Done(lg.err, r.st, events)
             ELSE Done("Ok", r.st, Append(events, ev))

\* The loop body with the ownership change left for after the hook: the event
\* is logged, the state is not yet written.
transfer_entry_effects_later(st, events, sender, e, lg) ==
    IF ~transfer_guard(st, sender, e.from)
    THEN Done("Unauthorized", st, events)
    ELSE LET r == transfer(st, e.token_id, e.amount, e.from, e.to)
             ev == [tag |-> "Transfer", token_id |-> e.token_id, amount |-> e.amount,
                    from |-> e.from, to |-> e.to]
         IN  IF r.err # "Ok" THEN Done(r.err, r.st, events)
             ELSE IF LogFails(lg, events) THEN Done(lg.err, st, events)
             ELSE Done("Ok", st, Append(events, ev))

\* One iteration of the loop of contract_transfer up to the receive hook:
\* the guard, State::transfer and the Transfer event.
transfer_entry(st, events, sender, e, lg) ==
    IF ~transfer_guard(st, sender, e.from)
    THEN Done("Unauthorized", st, events)
    ELSE LET r == transfer(st, e.token_id, e.amount, e.from, e.to)
             ev == [tag |-> "Transfer", token_id |-> e.token_id, amount |-> e.amount,
                    from |-> e.from, to |-> e.to]
         IN  IF r.err # "Ok" THEN Done(r.err, r.st, events)
             ELSE IF LogFails(lg, events) THEN Done(lg.err, r.st, events)
             ELSE Done("Ok", r.st, Append(events, ev))

\* The loop of contract_update_operator with the result of logger.log dropped:
\* a failed log is skipped and the loop goes on.
RECURSIVE update_operator_loop_ignores_log(_, _, _, _, _)
update_operator_loop_ignores_log(st, events, sender, params, lg) ==
    IF params = <<>>
    THEN Done("Ok", st, events)
    ELSE LET param == Head(params)
             st1 == IF param.update = "Add"
                    THEN add_operator(st, sender, param.operator)
                    ELSE remove_operator(st, sender, param.operator)
         IN  update_operator_loop_ignores_log(st1, events, sender, Tail(params), lg)

\* contract_update_operator: the loop over the parameter list.
RECURSIVE update_operator_loop(_, _, _, _, _)
update_operator_loop(st, events, sender, params, lg) ==
    IF params = <<>>
    THEN Done("Ok", st, events)
    ELSE LET param == Head(params)
             st1 == IF param.update = "Add"
                    THEN add_operator(st, sender, param.operator)
                    ELSE remove_operator(st, sender, param.operator)
             ev == [tag |-> "UpdateOperator", owner |-> sender,
                    operator |-> param.operator, update |-> param.update]
         IN  IF LogFails(lg, events) THEN Done(lg.err, st1, events)
             ELSE update_operator_loop(st1, Append(events, ev), sender, Tail(params), lg)

contract_update_operator(st, sender, params, lg) ==
    update_operator_loop(st, <<>>, sender, params, lg)

\* contract_set_implementor
contract_set_implementor(st, sender, p) ==
    IF matches_account(sender, InitOrigin)
    THEN Done("Unauthorized", st, <<>>)
    ELSE Done("Ok", set_implementors(st, p.id, p.implementors), <<>>)

\* contract_upgrade, in the module mod the instance runs: the module it asked
\* the host to switch to, whether it invoked the migration entrypoint, and
\* its result.
contract_upgrade(mod, sender, p, up, mig) ==
    IF ~matches_account(sender, InitOrigin)
    THEN [err |-> "Ok", module |-> mod, migrated |-> FALSE]
    ELSE IF up # "Ok"
    THEN [err |-> up, module |-> mod, migrated |-> FALSE]
    ELSE IF p.migrate
    THEN [err |-> mig, module |-> p.module, migrated |-> TRUE]
    ELSE [err |-> "Ok", module |-> p.module, migrated |-> FALSE]

\* contract_supports: one SupportResult per queried identifier.
contract_supports(st, queries) ==
    [i \in 1..Len(queries) |->
        IF queries[i] \in SUPPORTS_STANDARDS
        THEN [kind |-> "Support", addresses |-> <<>>]
        ELSE have_implementors(st, queries[i])]

\* The loop of contract_balance_of pushing each amount at the front of the
\* response.
RECURSIVE balance_of_loop_reversed(_, _, _)
balance_of_loop_reversed(st, queries, response) ==
    IF queries = <<>>
    THEN [err |-> "Ok", response |-> response]
    ELSE LET query == Head(queries)
             amount == balance(st, query.token_id, query.address)
         IN  IF amount.err # "Ok"
             THEN [err |-> amount.err, response |-> <<>>]
             ELSE balance_of_loop_reversed(st, Tail(queries), <<amount.amount>> \o response)

\* contract_balance_of: the loop over the queries; the first query of a token
\* that does not exist ends the call with its error.
RECURSIVE balance_of_loop(_, _, _)
balance_of_loop(st, queries, response) ==
    IF queries = <<>>
    THEN [err |-> "Ok", response |-> response]
    ELSE LET query == Head(queries)
             amount == balance(st, query.token_id, query.address)
         IN  IF amount.err # "Ok"
             THEN [err |-> amount.err, response |-> <<>>]
             ELSE balance_of_loop(st, Tail(queries), Append(response, amount.amount))

contract_balance_of(st, queries) == balance_of_loop(st, queries, <<>>)

\* contract_token_metadata: the loop over the queried token ids.
RECURSIVE token_metadata_loop(_, _, _)
token_metadata_loop(st, queries, response) ==
    IF queries = <<>>
    THEN [err |-> "Ok", response |-> response]
    ELSE LET token_id == Head(queries)
         IN  IF ~contains_token(st, token_id) \/ token_id \notin DOMAIN st.metadata
             THEN [err |-> "InvalidTokenId", response |-> <<>>]
             ELSE token_metadata_loop(
                      st, Tail(queries),
                      Append(response, [url |-> st.metadata[token_id].url, hash |-> "None"]))

contract_token_metadata(st, queries) == token_metadata_loop(st, queries, <<>>)

\* What the chain keeps of a call: the state the handler left when it
\* returned Ok, the state the call began in when it returned Err.
Committed(pre, r) == IF r.err = "Ok" THEN r.st ELSE pre

\* The events the chain keeps of a call: none when it was rejected.
Emitted(r) == IF r.err = "Ok" THEN r.events ELSE <<>>

----------------------------------------------------------------------------
(* The parameters the calls are made with.                                 *)

\* MintParams (web3id is parsed and never used)
MintParamsSet == [owner : Accounts, token : TokenIds]

\* BurnParams
BurnParamsSet == [token_id : TokenIds, owner : Address, amount : Amounts]

\* concordium_cis2::Transfer; to is the address of the Receiver, a receiver
\* in Contracts is Receiver::Contract and has its hook invoked.
TransferSet == [token_id : TokenIds, amount : Amounts, from : Address, to : Address]

\* UpdateOperator
OperatorCandidates == {"acc2", "con1"}
UpdateOperatorSet == [update : {"Add", "Remove"}, operator : OperatorCandidates]

RECURSIVE SeqsUpTo(_, _)
SeqsUpTo(S, n) ==
    IF n = 0 THEN {<<>>}
    ELSE LET shorter == SeqsUpTo(S, n - 1)
         IN  shorter \cup {Append(q, x) : q \in {r \in shorter : Len(r) = n - 1}, x \in S}

\* UpdateOperatorParams: the lists of at most n updates.
UpdateOperatorParamsSet(n) == SeqsUpTo(UpdateOperatorSet, n)

\* SetImplementorsParams
StandardIds == {"CIS-2", "CIS-X"}
ImplementorLists == {<<>>, <<"con1">>}
SetImplementorsParamsSet == [id : StandardIds, implementors : ImplementorLists]

\* ContractBalanceOfQueryParams: a list of (token id, address) queries.
BalanceOfQuerySet == [token_id : TokenIds, address : Address]
BalanceOfQueryParamsSet(n) == SeqsUpTo(BalanceOfQuerySet, n)

\* UpgradeParams: the module to switch to, and whether a migration entrypoint
\* is named.
ModuleRefs == {"module1"}
UpgradeParamsSet == [module : ModuleRefs, migrate : BOOLEAN]

----------------------------------------------------------------------------
(* The state machine.                                                      *)

NoCall == [op |-> "none"]

\* The record of a finished call: what it was called with (for transfer: the
\* n-th entry of its list, the last one it reached), the state it began in
\* (pre), the state its handler had built when it returned (mid), its result
\* and the events it emitted.
Outcome(op, sender, param, n, lg, err, pre, mid, events) ==
    [op |-> op, sender |-> sender, param |-> param, n |-> n, logger |-> lg,
     err |-> err, pre |-> pre, mid |-> mid, events |-> events]

\* contract_init
Init ==
    /\ host = StateEmpty(InitOrigin)
    /\ stack = <<>>
    /\ last = NoCall
    /\ calls = 0
    /\ module = ThisModule
    /\ licenses = EmptyMap
    /\ burned = EmptyMap
    /\ foreign = FALSE

InHook == stack # <<>> /\ stack[Len(stack)].phase = "hook"
InLoop == stack # <<>> /\ stack[Len(stack)].phase = "loop"
InMigration == stack # <<>> /\ stack[Len(stack)].phase = "migrate"

\* The migration entrypoint of the new module is code of that module, not of
\* lib.rs, and runs with write access to the whole contract state.  Nothing
\* limits how many writes it makes, and each is a step of the model: the
\* states one write away from st are st with the owner assigned, with an
\* entry inserted in or removed from one of its sets and maps (a new (address,
\* AddressState) entry is empty, as entry().or_insert_with makes it), or as
\* one operation of impl State, kept by the new module and called with any
\* arguments, leaves it.  These writes compose to every value of State.
MigrationWrites(st) ==
    ({StateEmpty(st.owner)}
     \cup {[st EXCEPT !.owner = a] : a \in Address}
     \cup {[st EXCEPT !.operators = @ \cup {a}] : a \in Address}
     \cup {[st EXCEPT !.operators = @ \ {a}] : a \in Address}
     \cup {[st EXCEPT !.all_tokens = @ \cup {t}] : t \in TokenIds}
     \cup {[st EXCEPT !.all_tokens = @ \ {t}] : t \in TokenIds}
     \cup {[st EXCEPT !.metadata = MapInsert(@, t, [url |-> build_token_metadata_url(u),
                                                    hash |-> ""])] :
              t \in TokenIds, u \in TokenIds}
     \cup {[st EXCEPT !.metadata = MapRemove(@, t)] : t \in TokenIds}
     \cup {[st EXCEPT !.implementors = MapRemove(@, id)] : id \in StandardIds}
     \cup {[st EXCEPT !.state = EntryOrInsert(@, a)] : a \in Address}
     \cup {[st EXCEPT !.state = MapRemove(@, a)] : a \in Address}
     \cup {[[st EXCEPT !.state = EntryOrInsert(@, a)]
               EXCEPT !.state[a].owned_tokens = @ \cup {t}] : a \in Address, t \in TokenIds}
     \cup {[[st EXCEPT !.state = EntryOrInsert(@, a)]
               EXCEPT !.state[a].owned_tokens = @ \ {t}] : a \in Address, t \in TokenIds}
     \cup {mint(st, t, o).st : t \in TokenIds, o \in Address}
     \cup {burn(st, t, o).st : t \in TokenIds, o \in Address}
     \cup {transfer(st, t, 1, from, to).st : t \in TokenIds, from \in Address, to \in Address}
     \cup {add_operator(st, o, op) : o \in Address, op \in Address}
     \cup {remove_operator(st, o, op) : o \in Address, op \in Address}
     \cup {set_implementors(st, id, l) : id \in StandardIds, l \in ImplementorLists})
    \ {st}

\* The instance runs the module of lib.rs.
RunsThisModule == module = ThisModule

\* Every write the contract state holds was made by the code of lib.rs: no
\* migration entrypoint of another module has written it (writes that were
\* undone with their failed call apart).
OwnState == ~foreign

\* A call can arrive when no call's result is pending and no transfer loop is
\* running: from any address at top level, from a contract inside a receive
\* hook or inside a migration (the migration entrypoint calls a contract that
\* calls back).  The call runs a handler of lib.rs when that is the module of
\* the instance; the entrypoints of another module are not described here.
CanCall ==
    /\ last = NoCall
    /\ stack = <<>> \/ InHook \/ InMigration
    /\ module = ThisModule
Senders == IF stack = <<>> THEN Address ELSE Contracts

\* A handler that does not call out runs to its end in one step.  r0 is the
\* handler's outcome with a logger that never fails: a call that ends before
\* its first log is made with that logger only (no other logger differs).
Receive(op, sender, param, steps, lg, r, r0) ==
    /\ r0.err # "Ok" => lg = NeverFails
    /\ host' = Committed(host, r)
    /\ last' = Outcome(op, sender, param, 0, lg, r.err, host, r.st, Emitted(r))
    /\ calls + steps <= MaxCalls
    /\ calls' = calls + steps
    /\ burned' = IF op = "burn" /\ r.err = "Ok"
                 THEN MapInsert(burned, param.token_id,
                                [owner |-> param.owner, reminted |-> FALSE])
                 ELSE IF op = "mint" /\ r.err = "Ok" /\ param.token \in DOMAIN burned
                 THEN [burned EXCEPT ![param.token].reminted = TRUE]
                 ELSE burned
    /\ UNCHANGED <<stack, module, licenses, foreign>>

Mint ==
    \E sender \in Senders, p \in MintParamsSet, lg \in Loggers(2) :
        /\ CanCall
        /\ Receive("mint", sender, p, 1, lg, contract_mint(host, sender, p, lg),
                   contract_mint(host, sender, p, NeverFails))

Burn ==
    \E sender \in Senders, p \in BurnParamsSet, lg \in Loggers(1) :
        /\ CanCall
        /\ Receive("burn", sender, p, 1, lg, contract_burn(host, sender, p, lg),
                   contract_burn(host, sender, p, NeverFails))

UpdateOperator ==
    \E sender \in Senders, params \in UpdateOperatorParamsSet(MaxCalls - calls) :
        \E lg \in Loggers(Len(params)) :
            /\ CanCall
            /\ Receive("updateOperator", sender, params,
                       IF params = <<>> THEN 1 ELSE Len(params), lg,
                       contract_update_operator(host, sender, params, lg),
                       contract_update_operator(host, sender, params, NeverFails))

SetImplementors ==
    \E sender \in Senders, p \in SetImplementorsParamsSet :
        /\ CanCall
        /\ Receive("setImplementors", sender, p, 1, NeverFails,
                   contract_set_implementor(host, sender, p),
                   contract_set_implementor(host, sender, p))

\* The record of a finished upgrade call: r is the result of contract_upgrade,
\* mid the contract state when the handler returned.
UpgradeOutcome(sender, p, r, pre, mid, module_pre) ==
    [op |-> "upgrade", sender |-> sender, param |-> p, n |-> 0,
     logger |-> NeverFails, err |-> r.err, pre |-> pre,
     mid |-> mid, events |-> <<>>, module_pre |-> module_pre,
     upgraded |-> r.module # module_pre, migrated |-> r.migrated]

\* contract_upgrade up to its call-out: a low-level handler, it does not open
\* the contract state itself.  up is the result of host.upgrade; a call that
\* does not reach it is made with "Ok" for it.  A call that goes on to the
\* migration entrypoint has switched the module and waits in a frame; every
\* other call ends here.
Upgrade ==
    \E sender \in Senders, p \in UpgradeParamsSet, up \in UpgradeResults :
        LET r == contract_upgrade(module, sender, p, up, "Ok")
            admin == matches_account(sender, InitOrigin)
        IN  /\ CanCall
            /\ ~admin => up = "Ok"
            /\ calls < MaxCalls
            /\ calls' = calls + 1
            /\ module' = r.module
            /\ IF r.migrated
               THEN /\ stack' = Append(stack, [pre |-> host, sender |-> sender,
                                               events |-> <<>>, n |-> 0,
                                               phase |-> "migrate", entry |-> NoCall,
                                               burned |-> burned, foreign |-> foreign,
                                               at_invoke |-> host,
                                               param |-> p, module_pre |-> module])
                    /\ last' = last
               ELSE /\ stack' = stack
                    /\ last' = UpgradeOutcome(sender, p, r, host, host, module)
            /\ UNCHANGED <<host, licenses, burned, foreign>>

\* contract_balance_of: a view, it reads the state the caller sees and leaves
\* it alone.  Each query of the list is a step of the budget.
BalanceOf ==
    \E queries \in BalanceOfQueryParamsSet(MaxCalls - calls) :
        LET r == contract_balance_of(host, queries)
            steps == IF queries = <<>> THEN 1 ELSE Len(queries)
        IN  /\ CanCall
            /\ calls + steps <= MaxCalls
            /\ calls' = calls + steps
            /\ last' = [op |-> "balanceOf", param |-> queries, err |-> r.err,
                        pre |-> host, response |-> r.response]
            /\ UNCHANGED <<host, stack, module, licenses, burned, foreign>>

\* contract_transfer is entered: its frame keeps the state the call began in
\* and, once an entry invoked a receive hook, the state at that invoke.
TransferBegin ==
    \E sender \in Senders :
        /\ CanCall
        /\ stack' = Append(stack, [pre |-> host, sender |-> sender,
                                   events |-> <<>>, n |-> 0, phase |-> "loop",
                                   entry |-> NoCall, burned |-> burned,
                                   at_invoke |-> host])
        /\ UNCHANGED <<host, last, calls, module, licenses, burned, foreign>>

Top == stack[Len(stack)]
Pop == SubSeq(stack, 1, Len(stack) - 1)
SetTop(f) == [stack EXCEPT ![Len(stack)] = f]

\* The next entry of the list: an entry that fails ends the call and the state
\* is the one the call began in; an entry to a contract waits in its hook.
TransferEntry ==
    /\ InLoop /\ last = NoCall
    /\ calls < MaxCalls
    /\ calls' = calls + 1
    /\ UNCHANGED <<module, licenses, foreign>>
    /\ \E e \in TransferSet, lg \in LoggersAt(Top.events) :
           LET r == transfer_entry(host, Top.events, Top.sender, e, lg)
               r0 == transfer_entry(host, Top.events, Top.sender, e, NeverFails)
           IN  /\ r0.err # "Ok" => lg = NeverFails
               /\ IF r.err # "Ok"
                  THEN /\ host' = Committed(Top.pre, r)
                       /\ burned' = Top.burned
                       /\ stack' = Pop
                       /\ last' = Outcome("transfer", Top.sender, e, Top.n + 1, lg,
                                          r.err, Top.pre, r.st, Emitted(r))
                  ELSE /\ host' = r.st
                       /\ burned' = burned
                       /\ stack' = SetTop([Top EXCEPT !.events = r.events, !.n = @ + 1,
                                                      !.entry = e,
                                                      !.at_invoke = r.st,
                                                      !.phase = IF e.to \in Contracts
                                                                THEN "hook" ELSE "loop"])
                       /\ last' = last

\* host.invoke_contract returns: Ok resumes the loop with the state the hook
\* left.  Err: what ran inside the failed invoke is undone, the handler is
\* back in the state of the invoke and ends the call with
\* InvokeContractError.
HookReturn ==
    \E ok \in BOOLEAN :
        /\ InHook /\ last = NoCall
        /\ UNCHANGED <<calls, module, licenses, foreign>>
        /\ IF ok
           THEN /\ stack' = SetTop([Top EXCEPT !.phase = "loop", !.at_invoke = host])
                /\ UNCHANGED <<host, last, burned>>
           ELSE /\ host' = Top.pre
                /\ burned' = Top.burned
                /\ stack' = Pop
                /\ last' = Outcome("transfer", Top.sender, Top.entry, Top.n, NeverFails,
                                   "InvokeContractError", Top.pre, Top.at_invoke, <<>>)

\* The list is exhausted: the call returns Ok and its state is kept.
TransferEnd ==
    /\ InLoop /\ last = NoCall
    /\ stack' = Pop
    /\ last' = Outcome("transfer", Top.sender, Top.entry, Top.n, NeverFails,
                       "Ok", Top.pre, host, Top.events)
    /\ UNCHANGED <<host, calls, module, licenses, burned, foreign>>

\* The migration entrypoint, invoked by host.invoke_contract_raw and still
\* running, makes one write to the contract state.  Every write is a step of
\* the budget, so a migration makes any number of them that the budget holds.
MigrationWrite ==
    /\ InMigration /\ last = NoCall
    /\ calls < MaxCalls
    /\ calls' = calls + 1
    /\ host' \in MigrationWrites(host)
    /\ foreign' = TRUE
    /\ UNCHANGED <<stack, last, module, licenses, burned>>

\* The migration entrypoint, a receive entrypoint of the instance like any
\* other, calls host.upgrade itself: the instance runs another module from
\* then on, which can be the module of lib.rs again.  The call is a step of
\* the budget.
MigrationUpgrade ==
    /\ InMigration /\ last = NoCall
    /\ calls < MaxCalls
    /\ calls' = calls + 1
    /\ module' \in (ModuleRefs \cup {ThisModule}) \ {module}
    /\ UNCHANGED <<host, stack, last, licenses, burned, foreign>>

\* host.invoke_contract_raw returns from the migration entrypoint.  Ok: the
\* handler returns Ok and the contract state is what the migration's writes
\* left.  Err: the handler returns the error and the call is undone, the
\* writes of the migration and the switch of the module included.
MigrationReturn ==
    \E mig \in InvokeResults :
        /\ InMigration /\ last = NoCall
        /\ stack' = Pop
        /\ UNCHANGED <<calls, licenses>>
        /\ LET r == contract_upgrade(Top.module_pre, Top.sender, Top.param, "Ok", mig)
           IN  IF r.err = "Ok"
               THEN /\ last' = UpgradeOutcome(Top.sender, Top.param, r, Top.pre, host,
                                              Top.module_pre)
                    /\ UNCHANGED <<host, module, burned, foreign>>
               ELSE /\ host' = Top.pre
                    /\ module' = Top.module_pre
                    /\ burned' = Top.burned
                    /\ foreign' = Top.foreign
                    /\ last' = UpgradeOutcome(Top.sender, Top.param, r, Top.pre,
                                              Top.at_invoke, Top.module_pre)

Return ==
    /\ last # NoCall
    /\ last' = NoCall
    /\ UNCHANGED <<host, stack, calls, module, licenses, burned, foreign>>

Next ==
    \/ Mint
    \/ Burn
    \/ UpdateOperator
    \/ SetImplementors
    \/ Upgrade
    \/ BalanceOf
    \/ TransferBegin
    \/ TransferEntry
    \/ HookReturn
    \/ TransferEnd
    \/ MigrationWrite
    \/ MigrationUpgrade
    \/ MigrationReturn
    \/ Return

Spec == Init /\ [][Next]_vars

----------------------------------------------------------------------------
(* The license lifecycle of the license surface (suspend, reactivate,      *)
(* renewLicense).  Its code is not in src/src/lib.rs; it is written here   *)
(* from spec.md sections 2, 4.1 and 4.3 and runs under its own             *)
(* specification LicenseSpec on the variable licenses, a map from token id *)
(* to LicenseMetadata.                                                     *)

LicenseTypes == {"Monthly", "Yearly"}
\* Block times and expiry times.
Times == {1, 2}
Expiries == {2, 3}

LicenseMintParamsSet ==
    [token : TokenIds, owner : Accounts, license_type : LicenseTypes, valid_until : Expiries]
RenewParamsSet == [token : TokenIds, new_expiry : Expiries]

\* Mint on the license surface: the contract owner creates the license of a
\* new token in state Active.
mint_license(ls, owner, sender, p, now) ==
    IF sender # owner
    THEN [err |-> "Unauthorized", ls |-> ls]
    ELSE IF p.token \in DOMAIN ls
    THEN [err |-> "LicenseAlreadyExists", ls |-> ls]
    ELSE [err |-> "Ok",
          ls |-> MapInsert(ls, p.token,
                    [license_type |-> p.license_type,
                     validity_period |-> [valid_from |-> now, valid_until |-> p.valid_until],
                     license_state |-> "Active",
                     minting_date |-> now,
                     minted_by |-> sender,
                     current_owner |-> p.owner])]

\* reactivate that also restarts the validity window at its end.
reactivate_restarts_validity(ls, owner, sender, token) ==
    IF sender # owner
    THEN [err |-> "Unauthorized", ls |-> ls]
    ELSE IF token \notin DOMAIN ls
    THEN [err |-> "LicenseNotFound", ls |-> ls]
    ELSE IF ls[token].license_state # "Suspended"
    THEN [err |-> "StateMismatch", ls |-> ls]
    ELSE [err |-> "Ok",
          ls |-> [ls EXCEPT ![token].license_state = "Active",
                            ![token].validity_period.valid_from = @ + 1]]

\* suspend: Active -> Suspended, contract owner only.
suspend(ls, owner, sender, token) ==
    IF sender # owner
    THEN [err |-> "Unauthorized", ls |-> ls]
    ELSE IF token \notin DOMAIN ls
    THEN [err |-> "LicenseNotFound", ls |-> ls]
    ELSE IF ls[token].license_state # "Active"
    THEN [err |-> "StateMismatch", ls |-> ls]
    ELSE [err |-> "Ok", ls |-> [ls EXCEPT ![token].license_state = "Suspended"]]

\* reactivate: Suspended -> Active, contract owner only.
reactivate(ls, owner, sender, token) ==
    IF sender # owner
    THEN [err |-> "Unauthorized", ls |-> ls]
    ELSE IF token \notin DOMAIN ls
    THEN [err |-> "LicenseNotFound", ls |-> ls]
    ELSE IF ls[token].license_state # "Suspended"
    THEN [err |-> "StateMismatch", ls |-> ls]
    ELSE [err |-> "Ok", ls |-> [ls EXCEPT ![token].license_state = "Active"]]

\* renewLicense: by the license's owner or an operator of it, on an Active
\* license, to an expiry later than now; rewrites validity_period.
renewLicense(ls, st, sender, p, now) ==
    IF p.token \notin DOMAIN ls
    THEN [err |-> "LicenseNotFound", ls |-> ls]
    ELSE IF /\ sender # ls[p.token].current_owner
            /\ ~is_operator(st, sender, ls[p.token].current_owner)
    THEN [err |-> "Unauthorized", ls |-> ls]
    ELSE IF ls[p.token].license_state # "Active"
    THEN [err |-> "StateMismatch", ls |-> ls]
    ELSE IF p.new_expiry <= now
    THEN [err |-> "InvalidExpiry", ls |-> ls]
    ELSE [err |-> "Ok",
          ls |-> [ls EXCEPT ![p.token].validity_period =
                               [valid_from |-> now, valid_until |-> p.new_expiry]]]

\* One call of the license surface: r is its result on licenses.
LicenseCall(op, sender, param, now, r) ==
    /\ last = NoCall
    /\ calls < MaxCalls
    /\ calls' = calls + 1
    /\ licenses' = IF r.err = "Ok" THEN r.ls ELSE licenses
    /\ last' = [op |-> op, sender |-> sender, param |-> param, now |-> now,
                err |-> r.err, pre |-> host, licenses_pre |-> licenses]
    /\ UNCHANGED <<host, stack, module, burned, foreign>>

MintLicense ==
    \E sender \in Address, p \in LicenseMintParamsSet, now \in Times :
        LicenseCall("mintLicense", sender, p, now,
                    mint_license(licenses, host.owner, sender, p, now))

Suspend ==
    \E sender \in Address, token \in TokenIds :
        LicenseCall("suspend", sender, token, 0,
                    suspend(licenses, host.owner, sender, token))

Reactivate ==
    \E sender \in Address, token \in TokenIds :
        LicenseCall("reactivate", sender, token, 0,
                    reactivate(licenses, host.owner, sender, token))

RenewLicense ==
    \E sender \in Address, p \in RenewParamsSet, now \in Times :
        LicenseCall("renewLicense", sender, p, now,
                    renewLicense(licenses, host, sender, p, now))

LicenseNext ==
    \/ MintLicense
    \/ Suspend
    \/ Reactivate
    \/ RenewLicense
    \/ Return

LicenseSpec == Init /\ [][LicenseNext]_vars

----------------------------------------------------------------------------
(* What the claims speak of.                                               *)

\* The addresses whose record holds token t.
Holders(st, t) == {a \in DOMAIN st.state : t \in st.state[a].owned_tokens}

\* The owned_tokens set of every address (empty without a record).
Owned(st) ==
    [a \in Address |-> IF a \in DOMAIN st.state THEN st.state[a].owned_tokens ELSE {}]

RECURSIVE SumBalances(_, _, _)
SumBalances(st, t, addrs) ==
    IF addrs = {} THEN 0
    ELSE LET a == CHOOSE x \in addrs : TRUE
         IN  balance(st, t, a).amount + SumBalances(st, t, addrs \ {a})

Holds(st, t, a) == a \in DOMAIN st.state /\ t \in st.state[a].owned_tokens

\* The errors one entry of a transfer list fails with by itself.
EntryErrors == {"Unauthorized", "InvalidTokenId", "InsufficientFunds"}

----------------------------------------------------------------------------
\* C1  Ownership exclusivity: in every reachable state that only the code of
\* this module has written, the states inside a receive hook included, every token
\* of all_tokens is in the owned_tokens set of exactly one address record and
\* its balances over all addresses sum to 1.
C1_OwnershipExclusive ==
    OwnState =>
    \A t \in host.all_tokens :
        /\ Cardinality(Holders(host, t)) = 1
        /\ SumBalances(host, t, Address) = 1

\* A re-entrant state: a transfer waits in the hook of a contract that now
\* holds the token it was sent, while another token is held by an account.
C1_Witness ==
    /\ InHook
    /\ \E t \in host.all_tokens : Holds(host, t, "con1")
    /\ \E t \in host.all_tokens, a \in Accounts : Holds(host, t, a)

\* C2  all_tokens, the metadata map and ownership stay in step in every state
\* only the code of this module has written: a token id is in all_tokens iff it has a
\* metadata entry, and no record owns a token id that is not in all_tokens.
C2_IndexInStep ==
    OwnState =>
    /\ \A t \in TokenIds : t \in host.all_tokens <=> t \in DOMAIN host.metadata
    /\ \A a \in DOMAIN host.state : host.state[a].owned_tokens \subseteq host.all_tokens

\* A token was just burned while another one still exists.
C2_Witness ==
    /\ last.op = "burn" /\ last.err = "Ok"
    /\ last.param.token_id \notin host.all_tokens
    /\ host.all_tokens # {}

MintAuthorized(st, sender) == sender = st.owner \/ sender \in st.operators

\* C3 (as amended)  A mint is rejected with Unauthorized iff its sender is
\* neither the stored owner nor a global operator; such a call leaves the whole
\* state unchanged and creates no token: a token id that did not exist before
\* it does not exist after it (balanceOf on it fails with InvalidTokenId).
C3_MintAuthorization ==
    last.op = "mint" =>
        /\ (last.err = "Unauthorized") <=> ~MintAuthorized(last.pre, last.sender)
        /\ ~MintAuthorized(last.pre, last.sender) =>
              /\ host = last.pre
              /\ last.param.token \notin last.pre.all_tokens =>
                    \A a \in Address :
                        balance(host, last.param.token, a).err = "InvalidTokenId"

\* An unauthorized mint of a new token id, in a ledger that holds a token.
C3_Witness ==
    /\ last.op = "mint" /\ last.err = "Unauthorized"
    /\ last.param.token \notin host.all_tokens
    /\ host.all_tokens # {}

\* C3 as stated: after an unauthorized mint the token id it named does not
\* exist (also when it was minted before).
C3_Original ==
    (last.op = "mint" /\ ~MintAuthorized(last.pre, last.sender)) =>
        /\ last.err = "Unauthorized"
        /\ host = last.pre
        /\ last.param.token \notin host.all_tokens

\* C4  Mint uniqueness: an authorized mint of a token id that is in
\* all_tokens fails with TokenIdAlreadyExists and the state after it is the
\* state before it.
C4_MintUniqueness ==
    (/\ last.op = "mint"
     /\ MintAuthorized(last.pre, last.sender)
     /\ last.param.token \in last.pre.all_tokens) =>
        /\ last.err = "TokenIdAlreadyExists"
        /\ host = last.pre

\* A second mint of a token, to another owner than the one that holds it.
C4_Witness ==
    /\ last.op = "mint" /\ last.err = "TokenIdAlreadyExists"
    /\ ~Holds(host, last.param.token, last.param.owner)
    /\ Holders(host, last.param.token) # {}

\* A transfer call that reached exactly its first entry, of amount 1, for a
\* token its from address held when the call began.
FirstEntryOfHeldToken ==
    /\ last.op = "transfer" /\ last.n = 1
    /\ last.param.amount = 1
    /\ Holds(last.pre, last.param.token_id, last.param.from)

\* C5  Transfer authorization: a transfer(t, 1, A, B) of a token held by A
\* whose sender is neither A nor an operator of A fails with Unauthorized and
\* leaves all balances unchanged (B is an account other than A and the logger
\* does not fail, so that no other error can come first).
C5_TransferAuthorization ==
    (/\ FirstEntryOfHeldToken
     /\ last.sender # last.param.from
     /\ ~is_operator(last.pre, last.sender, last.param.from)
     /\ last.param.to \in Accounts \ {last.param.from}
     /\ last.logger = NeverFails) =>
        /\ last.err = "Unauthorized"
        /\ Owned(host) = Owned(last.pre)

\* C6  Transfer by the holder: a transfer(t, 1, A, B), B # A, sent by the
\* holder A succeeds, moves the token from A to B and emits one Transfer
\* event (the recipient is an account and the logger does not fail).
C6_TransferByHolder ==
    (/\ FirstEntryOfHeldToken
     /\ last.sender = last.param.from
     /\ last.param.to # last.param.from
     /\ last.param.to \in Accounts
     /\ last.logger = NeverFails) =>
        /\ last.err = "Ok"
        /\ balance(host, last.param.token_id, last.param.from).amount = 0
        /\ balance(host, last.param.token_id, last.param.to).amount = 1
        /\ Len(last.events) = 1 /\ last.events[1].tag = "Transfer"

\* C7  Operator delegation: a transfer(t, 1, A, B) of a token held by A sent
\* by X # A succeeds when X is an enabled operator of A and is rejected with
\* Unauthorized when it is not (the recipient is an account and the logger
\* does not fail).
C7_OperatorDelegation ==
    (/\ FirstEntryOfHeldToken
     /\ last.sender # last.param.from
     /\ last.param.to \in Accounts
     /\ last.logger = NeverFails) =>
        IF is_operator(last.pre, last.sender, last.param.from)
        THEN last.err = "Ok"
        ELSE last.err = "Unauthorized"

\* The error an entry that fails by itself fails with, in the state st the
\* loop had reached.
EntryError(st, sender, e) ==
    IF ~transfer_guard(st, sender, e.from) THEN "Unauthorized"
    ELSE IF e.token_id \notin st.all_tokens THEN "InvalidTokenId"
    ELSE "InsufficientFunds"

\* An entry of a transfer list fails by itself, on the state st it is applied
\* to, when it is unauthorized (the check of the handler), names a token that
\* does not exist, or moves more of the token than from holds.
EntryFails(st, sender, e) ==
    \/ ~transfer_guard(st, sender, e.from)
    \/ e.token_id \notin st.all_tokens
    \/ e.amount > (IF Holds(st, e.token_id, e.from) THEN 1 ELSE 0)

\* C8  Transfer atomicity: a transfer call one of whose entries fails
\* (unauthorized, nonexistent token, from does not hold the token) ends at
\* that entry and returns its error, emits nothing, and the state after the
\* call is the state before it, whatever the entries before the failing one
\* had done.  First the finished call that was rejected; then the step of a
\* running transfer that takes the next entry e of the list, on the state the
\* entries before it left.
C8_TransferAtomicity ==
    /\ []((last.op = "transfer" /\ last.err # "Ok") =>
             /\ host = last.pre
             /\ last.events = <<>>
             /\ last.err \in EntryErrors =>
                   last.err = EntryError(last.mid, last.sender, last.param))
    /\ [][(InLoop /\ last = NoCall /\ calls' = calls + 1) =>
             LET e == IF Len(stack') = Len(stack) THEN stack'[Len(stack')].entry
                      ELSE last'.param
             IN  EntryFails(host, Top.sender, e) =>
                     /\ stack' = Pop
                     /\ last'.op = "transfer"
                     /\ last'.err = EntryError(host, Top.sender, e)
                     /\ last'.pre = Top.pre
                     /\ last'.events = <<>>
                     /\ host' = Top.pre
         ]_vars

\* The second entry of a list failed after the first one had moved a token.
C8_Witness ==
    /\ last.op = "transfer" /\ last.n = 2
    /\ last.err \in EntryErrors
    /\ Owned(last.mid) # Owned(last.pre)
    /\ Owned(host) = Owned(last.pre)

\* C9 (as amended)  A first entry transfer(t, 0, a, b) changes nothing
\* whatever its result; it fails with Unauthorized when it does not pass the
\* authorization check of contract_transfer, with InvalidTokenId when it
\* passes and t is not in all_tokens, and otherwise succeeds unless logging
\* its Transfer event fails.
C9_ZeroTransferNoOp ==
    [][(InLoop /\ Top.n = 0 /\ calls' = calls + 1) =>
          LET failed == last' # NoCall
              e == IF failed THEN last'.param ELSE stack'[Len(stack')].entry
              passes == transfer_guard(host, Top.sender, e.from)
          IN  e.amount = 0 =>
                /\ host' = host
                /\ ~passes => (failed /\ last'.err = "Unauthorized")
                /\ (passes /\ e.token_id \notin host.all_tokens) =>
                      (failed /\ last'.err = "InvalidTokenId")
                /\ (passes /\ e.token_id \in host.all_tokens) =>
                      (~failed \/ last'.err \in LogErrors)
      ]_vars

\* A zero-amount first entry succeeded for a token its from address holds and
\* a receiver other than from.
C9_Witness ==
    /\ stack # <<>> /\ Top.n = 1
    /\ Top.entry.amount = 0
    /\ Top.entry.to # Top.entry.from
    /\ Holds(host, Top.entry.token_id, Top.entry.from)

\* C9 as stated, on the entries that pass the authorization check, to an
\* account and with a logger that does not fail: transfer(t, 0, a, b)
\* succeeds for every token id t.
C9_Original ==
    (/\ last.op = "transfer" /\ last.n = 1
     /\ last.param.amount = 0
     /\ last.param.to \in Accounts
     /\ transfer_guard(last.pre, last.sender, last.param.from)
     /\ last.logger = NeverFails) =>
        /\ last.err = "Ok"
        /\ Owned(host) = Owned(last.pre)

\* C10  Burn outcomes: a burn(t, o) sent by o fails with InvalidTokenId when
\* t is not in all_tokens, with InsufficientFunds when t exists and o's record
\* is absent or does not hold t, both leaving the state unchanged; otherwise
\* (its Burn event being logged) it removes t from o's owned_tokens, from
\* all_tokens and from the metadata map and changes nothing else.
C10_BurnOutcomes ==
    (last.op = "burn" /\ last.sender = last.param.owner) =>
        LET t == last.param.token_id
            o == last.param.owner
            pre == last.pre
        IN  IF t \notin pre.all_tokens
            THEN last.err = "InvalidTokenId" /\ host = pre
            ELSE IF ~Holds(pre, t, o)
            THEN last.err = "InsufficientFunds" /\ host = pre
            ELSE IF last.logger # NeverFails
            THEN last.err = last.logger.err /\ host = pre
            ELSE /\ last.err = "Ok"
                 /\ host = [pre EXCEPT !.state[o].owned_tokens = @ \ {t},
                                       !.all_tokens = @ \ {t},
                                       !.metadata = MapRemove(@, t)]

\* The contract owner burns a token that exists and is held by another
\* address, while its own record is there.
C10_Witness ==
    /\ last.op = "burn" /\ last.sender = last.param.owner
    /\ last.err = "InsufficientFunds"
    /\ last.param.owner \in DOMAIN last.pre.state
    /\ Holders(last.pre, last.param.token_id) \notin {{}, {last.param.owner}}
    /\ last.param.owner = last.pre.owner

\* C11  Burn authorization: a token t of the ledger leaves all_tokens only in
\* a successful burn of t whose sender held t; no burn by another sender, no
\* other entrypoint of this module removes it.  (The one other way a token id
\* leaves all_tokens is the rejection of the call it was minted in: a transfer
\* whose receive hook minted t and that then fails is rolled back with the
\* mint.  What the migration entrypoint of a module the instance was switched
\* to does is not an entrypoint of this module.)
C11_BurnAuthorization ==
    [][\A t \in host.all_tokens :
          (OwnState /\ OwnState' /\ t \notin host'.all_tokens) =>
             \/ /\ last' # NoCall
                /\ last'.op = "burn" /\ last'.err = "Ok"
                /\ last'.param.token_id = t
                /\ Holds(host, t, last'.sender)
             \/ /\ last' # NoCall
                /\ last'.err # "Ok"
                /\ t \notin last'.pre.all_tokens
      ]_vars

\* The contract owner names the holder A as owner in a burn of A's token and
\* is rejected; the token is still A's.
C11_Witness ==
    /\ last.op = "burn" /\ last.err = "Unauthorized"
    /\ last.sender = host.owner
    /\ last.param.owner # last.sender
    /\ Holds(host, last.param.token_id, last.param.owner)

\* C12  setImplementors is administrative only: a setImplementors call
\* succeeds and stores its list under its identifier iff its sender is the
\* contract owner; from any other sender it fails with Unauthorized and the
\* implementors map is unchanged.
C12_SetImplementorsAdminOnly ==
    last.op = "setImplementors" =>
        IF last.sender = last.pre.owner
        THEN /\ last.err = "Ok"
             /\ have_implementors(host, last.param.id).kind = "SupportBy"
             /\ have_implementors(host, last.param.id).addresses = last.param.implementors
        ELSE /\ last.err = "Unauthorized"
             /\ host.implementors = last.pre.implementors

\* C13  Upgrade is administrative only and its refusal is surfaced: an
\* upgrade call whose sender is not the contract owner does not replace the
\* module, does not invoke the migration entrypoint, and returns an error.
C13_UpgradeRefusalSurfaced ==
    (last.op = "upgrade" /\ ~matches_account(last.sender, InitOrigin)) =>
        /\ module = last.module_pre
        /\ ~last.upgraded /\ ~last.migrated
        /\ last.err # "Ok"

\* The operator set of every address (empty without a record).
OperatorsOf(st) ==
    [a \in Address |-> IF a \in DOMAIN st.state THEN st.state[a].operators ELSE {}]

\* C14  Operator updates are scoped to the sender: after an updateOperator
\* call sent by s the operator set of every address other than s is what it
\* was before the call, and so are every owned_tokens set, all_tokens, the
\* metadata map and the global operator set; the operator set of s changes
\* only by the operators the call names.
C14_OperatorUpdateScoped ==
    last.op = "updateOperator" =>
        /\ \A o \in Address \ {last.sender} : OperatorsOf(host)[o] = OperatorsOf(last.pre)[o]
        /\ Owned(host) = Owned(last.pre)
        /\ host.all_tokens = last.pre.all_tokens
        /\ host.metadata = last.pre.metadata
        /\ host.operators = last.pre.operators
        /\ \A x \in Address :
              (x \in OperatorsOf(host)[last.sender]) # (x \in OperatorsOf(last.pre)[last.sender])
                 => \E i \in 1..Len(last.param) : last.param[i].operator = x

\* An operator of acc1 updates operators: its own set changes, the set of
\* acc1, which it is an operator of, does not.
C14_Witness ==
    /\ last.op = "updateOperator" /\ last.err = "Ok"
    /\ last.sender # "acc1"
    /\ is_operator(last.pre, last.sender, "acc1")
    /\ OperatorsOf(host)[last.sender] # OperatorsOf(last.pre)[last.sender]
    /\ \E t \in host.all_tokens : Holds(host, t, "acc1")

\* C15  Operator idempotence: in every reachable state, for every owner o and
\* address x, adding x as operator of o twice gives the state that adding it
\* once gives; removing an x that is not an operator of o (o with or without
\* an address record) leaves is_operator(y, o) as it was for every y, and the
\* updateOperator call of o that removes it succeeds.
C15_OperatorIdempotence ==
    \A o \in Address, x \in Address :
        /\ LET once == add_operator(host, o, x)
           IN  add_operator(once, o, x) = once
        /\ ~is_operator(host, x, o) =>
              LET r == contract_update_operator(
                           host, o, <<[update |-> "Remove", operator |-> x]>>, NeverFails)
              IN  /\ r.err = "Ok"
                  /\ r.st = remove_operator(host, o, x)
                  /\ \A y \in Address : is_operator(r.st, y, o) = is_operator(host, y, o)

\* A call added the same operator twice; in the state it left, one owner has
\* an operator and another address has no record.
C15_Witness ==
    /\ last.op = "updateOperator" /\ last.err = "Ok"
    /\ Len(last.param) = 2
    /\ last.param[1] = last.param[2] /\ last.param[1].update = "Add"
    /\ host = add_operator(last.pre, last.sender, last.param[1].operator)
    /\ \E a \in Address : a \notin DOMAIN host.state

\* The identifiers supports is asked about.
StandardQueryIds == SUPPORTS_STANDARDS \cup StandardIds

\* supports, asked about one identifier.
Supports1(st, id) == contract_supports(st, <<id>>)[1]

\* C16  Standard discovery: supports answers Support for CIS-0 and CIS-2 in
\* every reachable state, whatever setImplementors stored; for another
\* identifier it answers NoSupport at first, SupportBy(l) with exactly the
\* list l of a successful setImplementors for that identifier from that call
\* on, and no other call of this module changes the answer (a rejected call
\* leaves the answer of the state it began in).
C16_StandardDiscovery ==
    /\ \A id \in StandardQueryIds \ SUPPORTS_STANDARDS :
          Supports1(host, id) = [kind |-> "NoSupport", addresses |-> <<>>]
    /\ [](\A id \in SUPPORTS_STANDARDS :
             Supports1(host, id) = [kind |-> "Support", addresses |-> <<>>])
    /\ [][\A id \in StandardQueryIds \ SUPPORTS_STANDARDS :
             (OwnState /\ OwnState') =>
             Supports1(host', id) =
                IF last = NoCall /\ last' # NoCall /\ last'.err # "Ok"
                THEN Supports1(last'.pre, id)
                ELSE IF /\ last = NoCall /\ last' # NoCall
                        /\ last'.op = "setImplementors" /\ last'.param.id = id
                THEN [kind |-> "SupportBy", addresses |-> last'.param.implementors]
                ELSE Supports1(host, id)
         ]_vars

\* A second setImplementors for the same identifier replaced a different
\* list, while a list is stored under the native identifier CIS-2.
C16_Witness ==
    /\ last.op = "setImplementors" /\ last.err = "Ok"
    /\ last.param.id \notin SUPPORTS_STANDARDS
    /\ last.param.id \in DOMAIN last.pre.implementors
    /\ last.pre.implementors[last.param.id] # last.param.implementors
    /\ last.pre.implementors[last.param.id] # <<>>
    /\ "CIS-2" \in DOMAIN host.implementors

\* The step in which a transfer entry to a contract reaches its receive hook.
EntersHook == InLoop /\ InHook' /\ Len(stack') = Len(stack)

\* C17 (as amended)  Effects before external call: when an entry to a
\* contract reaches its receive hook, its Transfer event is logged and, for an
\* entry of amount 1, the recipient holds the token (balance 1) and from does
\* not (balance 0); an entry of amount 0 has changed no owned-token set.  The
\* state the hook, and every call made from it, starts in satisfies ownership
\* exclusivity.  The states are those only the code of this module has
\* written.
C17_EffectsBeforeHook ==
    [][(EntersHook /\ OwnState /\ OwnState') =>
          LET f == stack'[Len(stack')]
              e == f.entry
          IN  /\ f.events # <<>>
              /\ f.events[Len(f.events)] =
                    [tag |-> "Transfer", token_id |-> e.token_id, amount |-> e.amount,
                     from |-> e.from, to |-> e.to]
              /\ e.amount = 1 =>
                    /\ balance(host', e.token_id, e.to) = [err |-> "Ok", amount |-> 1]
                    /\ e.from # e.to =>
                          balance(host', e.token_id, e.from) = [err |-> "Ok", amount |-> 0]
              /\ e.amount = 0 => Owned(host') = Owned(host)
              /\ \A t \in host'.all_tokens : Cardinality(Holders(host', t)) = 1
      ]_vars

\* Inside the receive hook of an entry of amount 1 the recipient contract
\* called burn on the token it was sent, and the burn succeeded.
C17_Witness ==
    /\ InHook /\ Top.entry.amount = 1
    /\ last.op = "burn" /\ last.err = "Ok"
    /\ last.sender = Top.entry.to
    /\ last.param.token_id = Top.entry.token_id

\* C17 as stated: at the receive hook of every entry to a contract the
\* recipient is the holder of the token (balance 1) and from is not.
C17_Original ==
    [][EntersHook =>
          LET e == stack'[Len(stack')].entry
          IN  /\ balance(host', e.token_id, e.to) = [err |-> "Ok", amount |-> 1]
              /\ balance(host', e.token_id, e.from) = [err |-> "Ok", amount |-> 0]
      ]_vars

\* C18  Abort on late failure: a mint, burn, transfer or updateOperator call
\* whose logger fails returns the logger's error, a transfer whose receive
\* hook fails returns InvokeContractError, and after a call that returned one
\* of these errors the state is the state before the call and no event of the
\* call is kept.
C18_AbortOnLateFailure ==
    last.op \in {"mint", "burn", "transfer", "updateOperator"} =>
        /\ last.logger # NeverFails => last.err = last.logger.err
        /\ last.err \in LogErrors \cup {"InvokeContractError"} =>
              /\ host = last.pre
              /\ last.events = <<>>

\* The second log of a mint (its TokenMetadata event) failed after the token
\* had been inserted and its Mint event logged; another token was there.
C18_Witness ==
    /\ last.op = "mint" /\ last.err \in LogErrors
    /\ last.logger.fail_at = 2
    /\ last.param.token \in last.mid.all_tokens
    /\ last.param.token \notin host.all_tokens
    /\ host.all_tokens # {}

\* C19  balanceOf result: a balanceOf call fails with InvalidTokenId when one
\* of the queried tokens is not in all_tokens; otherwise it returns a list as
\* long as the query list whose i-th element is 1 when the record of the i-th
\* address holds the i-th token and 0 when it does not or there is no such
\* record.  The call changes nothing.
C19_BalanceOfResult ==
    last.op = "balanceOf" =>
        LET q == last.param
            st == last.pre
        IN  /\ host = st
            /\ IF \E i \in 1..Len(q) : q[i].token_id \notin st.all_tokens
               THEN last.err = "InvalidTokenId"
               ELSE /\ last.err = "Ok"
                    /\ Len(last.response) = Len(q)
                    /\ \A i \in 1..Len(q) :
                          last.response[i] =
                             IF Holds(st, q[i].token_id, q[i].address) THEN 1 ELSE 0

\* Two queries of an existing token: the holder first, then an address with
\* no record; the answer is 1, 0 in that order.
C19_Witness ==
    /\ last.op = "balanceOf" /\ last.err = "Ok"
    /\ last.response = <<1, 0>>
    /\ last.param[2].address \notin DOMAIN host.state

\* tokenMetadata, asked about one token id.
TokenMetadata1(st, t) == contract_token_metadata(st, <<t>>)

\* C20  Metadata is a function of the token id: in every reachable state
\* that only the code of this module has written
\* tokenMetadata(t) of an existing token returns the URL that
\* build_token_metadata_url derives from t (the base URL followed by the
\* byte-swapped id in at least 8 decimal digits), whoever minted, holds or
\* transferred t; tokenMetadata of a token that does not exist fails with
\* InvalidTokenId; and the TokenMetadata event of a successful mint carries
\* the URL tokenMetadata returns.
C20_MetadataOfTokenId ==
    /\ \A t \in TokenIds :
          OwnState =>
          LET r == TokenMetadata1(host, t)
          IN  IF t \in host.all_tokens
              THEN /\ r.err = "Ok"
                   /\ r.response[1].url = build_token_metadata_url(t)
                   /\ t = 1 => r.response[1].url = TOKEN_METADATA_BASE_URL \o "16777216"
                   /\ t = 256 => r.response[1].url = TOKEN_METADATA_BASE_URL \o "00065536"
              ELSE r.err = "InvalidTokenId"
    /\ (last.op = "mint" /\ last.err = "Ok") =>
          /\ last.events[2].tag = "TokenMetadata"
          /\ last.events[2].token_id = last.param.token
          /\ last.events[2].url = TokenMetadata1(host, last.param.token).response[1].url

\* A token minted to one account is now held by another after a transfer,
\* and the other token id does not exist.
C20_Witness ==
    /\ last.op = "transfer" /\ last.err = "Ok" /\ last.n = 1
    /\ last.param.amount = 1 /\ last.param.from # last.param.to
    /\ Holds(host, last.param.token_id, last.param.to)
    /\ \E t \in TokenIds : t \notin host.all_tokens

\* The step of LicenseSpec in which the call op is made.
LicenseStep(op) == last = NoCall /\ last' # NoCall /\ last'.op = op

\* C21  License suspension round trip: suspend by a sender other than the
\* contract owner fails with Unauthorized and changes nothing; suspend by the
\* contract owner moves an Active license to Suspended and changes no other
\* field; while a license is Suspended no call changes any field of it except
\* a reactivate by the contract owner, which succeeds and sets license_state
\* back to Active, leaving validity_period and every other field as they were
\* before the suspend.
C21_SuspendRoundTrip ==
    [][/\ LicenseStep("suspend") =>
             LET t == last'.param
             IN  /\ last'.sender # host.owner =>
                       (last'.err = "Unauthorized" /\ licenses' = licenses)
                 /\ (/\ last'.sender = host.owner
                     /\ t \in DOMAIN licenses
                     /\ licenses[t].license_state = "Active") =>
                       /\ last'.err = "Ok"
                       /\ licenses' = [licenses EXCEPT ![t].license_state = "Suspended"]
       /\ \A t \in DOMAIN licenses :
             licenses[t].license_state = "Suspended" =>
                /\ t \in DOMAIN licenses'
                /\ \/ licenses'[t] = licenses[t]
                   \/ /\ LicenseStep("reactivate")
                      /\ last'.sender = host.owner /\ last'.param = t
                      /\ licenses'[t] = [licenses[t] EXCEPT !.license_state = "Active"]
                /\ (/\ LicenseStep("reactivate")
                    /\ last'.sender = host.owner /\ last'.param = t) =>
                      /\ last'.err = "Ok"
                      /\ licenses'[t].license_state = "Active"
      ]_vars

\* The contract owner reactivated a license it had suspended: the license is
\* Active again.
C21_Witness ==
    /\ last.op = "reactivate" /\ last.err = "Ok"
    /\ last.licenses_pre[last.param].license_state = "Suspended"
    /\ licenses[last.param] = [last.licenses_pre[last.param] EXCEPT !.license_state = "Active"]


\* C22  Mint succeeds only for the contract owner: in every reachable state
\* that only the code of this module has written the global operator set is empty
\* (also in the state every finished call began in), the stored owner is the
\* account that initialised the contract, and a mint call that succeeded was
\* sent by that account.
C22_MintOnlyByOwner ==
    OwnState =>
    /\ host.operators = {}
    /\ last # NoCall => last.pre.operators = {}
    /\ (last.op = "mint" /\ last.err = "Ok") =>
          (last.sender = last.pre.owner /\ last.sender = InitOrigin)

\* The contract owner minted a token while some address had operators
\* registered: those are not global operators.
C22_Witness ==
    /\ last.op = "mint" /\ last.err = "Ok"
    /\ \E a \in DOMAIN last.pre.state : last.pre.state[a].operators # {}
    /\ host.operators = {}


\* C23  Guard before mutation: a call that fails the authorization check of
\* its entrypoint is answered with Unauthorized and leaves the state as it
\* was, whatever else is wrong with it.  A burn whose sender differs from its
\* owner parameter, a mint whose sender is neither the owner nor a global
\* operator, and a transfer whose last entry reached fails the guard all end
\* in Unauthorized, whether or not the token exists or is held by the address
\* named.
C23_GuardBeforeMutation ==
    /\ (last.op = "burn" /\ last.param.owner # last.sender) =>
          (last.err = "Unauthorized" /\ host = last.pre)
    /\ (last.op = "mint" /\ ~MintAuthorized(last.pre, last.sender)) =>
          (last.err = "Unauthorized" /\ host = last.pre)
    /\ (last.op = "transfer" /\ last.n >= 1
          /\ ~transfer_guard(last.mid, last.sender, last.param.from)) =>
          (last.err = "Unauthorized" /\ host = last.pre)

\* A burn whose sender is not the owner it names, for a token that does not
\* exist, while another token does.
C23_Witness ==
    /\ last.op = "burn" /\ last.param.owner # last.sender
    /\ ~contains_token(last.pre, last.param.token_id)
    /\ last.pre.all_tokens # {}
    /\ last.err = "Unauthorized"

\* A transfer entry that fails the guard, for a token that does not exist.
C23_WitnessTransfer ==
    /\ last.op = "transfer" /\ last.n >= 1
    /\ ~transfer_guard(last.mid, last.sender, last.param.from)
    /\ ~contains_token(last.mid, last.param.token_id)
    /\ last.err = "Unauthorized"

\* A transfer entry that fails the guard after an earlier entry of the same
\* call moved a token, for a token its from address does not hold.
C23_WitnessNotHeld ==
    /\ last.op = "transfer" /\ last.n = 2
    /\ ~transfer_guard(last.mid, last.sender, last.param.from)
    /\ contains_token(last.mid, last.param.token_id)
    /\ ~Holds(last.mid, last.param.token_id, last.param.from)
    /\ last.mid # last.pre
    /\ last.err = "Unauthorized"


\* C24  Re-mint after burn: on a state only the code of this module has
\* written, when a token id was burned and not minted again
\* since, a mint of that id by an authorized sender whose logs succeed
\* returns Ok (not TokenIdAlreadyExists); afterwards the new owner is the
\* only holder of the id, and the holder the burn took it from, when it is
\* another address, has balance 0 for it.
C24_RemintAfterBurn ==
    [][(/\ OwnState /\ OwnState'
        /\ last = NoCall /\ last' # NoCall /\ last'.op = "mint"
        /\ last'.param.token \in DOMAIN burned
        /\ ~burned[last'.param.token].reminted
        /\ MintAuthorized(host, last'.sender)
        /\ last'.logger = NeverFails) =>
          LET t == last'.param.token
              o == last'.param.owner
              h == burned[t].owner
          IN  /\ last'.err = "Ok"
              /\ Holders(host', t) = {o}
              /\ h # o => balance(host', t, h) = [err |-> "Ok", amount |-> 0]
              /\ balance(host', t, o) = [err |-> "Ok", amount |-> 1]
      ]_vars

\* A token id was minted, burned by its holder and minted again to another
\* address: the earlier holder still has a record, without the token.
C24_Witness ==
    /\ last.op = "mint" /\ last.err = "Ok"
    /\ last.param.token \in DOMAIN burned
    /\ burned[last.param.token].reminted
    /\ LET h == burned[last.param.token].owner
       IN  /\ h # last.param.owner
           /\ h \in DOMAIN host.state
           /\ balance(host, last.param.token, h) = [err |-> "Ok", amount |-> 0]
    /\ Holders(host, last.param.token) = {last.param.owner}


\* C25 as stated: in every state the calls of the entrypoints reach (no
\* migration entrypoint still running) the stored owner field is the account
\* that initialised the contract, upgrade calls included.
C25_Original == ~InMigration => host.owner = InitOrigin

\* C25 (as amended)  The administrative owner is constant under the code of
\* this module: in every reachable state that only the code of this module
\* has written the stored owner field is the account that initialised the
\* contract, also in the state a running transfer or upgrade began in, in the
\* state a finished call began in and in the state its handler had built when
\* it returned; and no step changes the field but a write of the migration
\* entrypoint of a module the owner upgraded to, or the undoing of such
\* writes when that migration fails.
C25_OwnerConstant ==
    /\ [](OwnState =>
             /\ host.owner = InitOrigin
             /\ \A i \in 1..Len(stack) : stack[i].pre.owner = InitOrigin
             /\ last # NoCall => last.pre.owner = InitOrigin
             /\ (last # NoCall /\ last.op # "balanceOf") =>
                   last.mid.owner = InitOrigin)
    /\ [][host'.owner # host.owner =>
             /\ InMigration
             /\ Top.sender = InitOrigin
             /\ Top.param.migrate
         ]_vars

\* Another account than the owner holds a token and has just changed the
\* state with a call of its own; the stored owner is still the init origin.
C25_Witness ==
    /\ last.op \in {"transfer", "setImplementors", "updateOperator", "burn"}
    /\ last.err = "Ok"
    /\ last.sender # InitOrigin
    /\ host # last.pre
    /\ \E t \in host.all_tokens : Holders(host, t) # {InitOrigin}
    /\ host.owner = InitOrigin


\* C26  Tokens outside the contract owner's address are frozen: when an
\* existing token is held by an address H other than the stored contract
\* owner, every step leaves it with H, except a successful burn of it sent by
\* H, and except the failure of the call within which H received it (a
\* transfer, or an upgrade whose migration had the transfer made), which
\* returns it to the state that call began in.  In particular no transfer
\* entry moves it.  The steps are those on states only the code of this
\* module has written: the writes of the migration entrypoint of a module
\* the instance was switched to are not among them.
C26_FrozenOutsideOwner ==
    [][\A t \in host.all_tokens : \A H \in Address \ {host.owner} :
          (OwnState /\ OwnState' /\ Holders(host, t) = {H}) =>
             \/ Holders(host', t) = {H} /\ t \in host'.all_tokens
             \/ /\ last = NoCall /\ last' # NoCall
                /\ last'.op = "burn" /\ last'.err = "Ok"
                /\ last'.sender = H /\ last'.param.token_id = t
                /\ t \notin host'.all_tokens
             \/ /\ stack # <<>> /\ stack' = Pop
                /\ last' # NoCall /\ last'.op \in {"transfer", "upgrade"}
                /\ last'.err # "Ok"
                /\ host' = Top.pre
                /\ Holders(Top.pre, t) # {H}
      ]_vars

\* The holder of a token, not the contract owner, sent a transfer of its own
\* token and was refused: the token is still with it.
C26_Witness ==
    /\ last.op = "transfer" /\ last.n >= 1 /\ last.err = "Unauthorized"
    /\ last.param.from = last.sender /\ last.param.amount = 1
    /\ last.param.to # last.sender
    /\ last.sender # host.owner
    /\ Holders(host, last.param.token_id) = {last.sender}


\* C27  Burn ignores the amount parameter: on a state only the code of this
\* module has written, a burn(t, o, amount) sent by o for
\* a token t that o holds, with a working logger, returns Ok and removes t
\* from the ledger whatever amount is; its one event is Burn(t, amount, o)
\* with the amount as passed; and the state it leaves is the state the same
\* call leaves with any other amount.
C27_BurnIgnoresAmount ==
    (/\ OwnState
     /\ last.op = "burn"
     /\ last.sender = last.param.owner
     /\ Holds(last.pre, last.param.token_id, last.param.owner)
     /\ last.logger = NeverFails) =>
       LET t == last.param.token_id
           o == last.param.owner
       IN  /\ last.err = "Ok"
           /\ t \notin host.all_tokens
           /\ Holders(host, t) = {}
           /\ t \notin DOMAIN host.metadata
           /\ last.events = <<[tag |-> "Burn", token_id |-> t,
                               amount |-> last.param.amount, owner |-> o]>>
           /\ \A a \in Amounts :
                 LET r == contract_burn(last.pre, last.sender,
                                        [last.param EXCEPT !.amount = a], last.logger)
                 IN  r.err = "Ok" /\ r.st = host

\* The holder burned its token with amount 0.
C27_Witness ==
    /\ last.op = "burn" /\ last.err = "Ok"
    /\ last.param.amount = 0
    /\ Holds(last.pre, last.param.token_id, last.sender)
    /\ ~contains_token(host, last.param.token_id)

\* The holder burned its token with an amount above 1.
C27_WitnessAbove ==
    /\ last.op = "burn" /\ last.err = "Ok"
    /\ last.param.amount > 1
    /\ Holds(last.pre, last.param.token_id, last.sender)
    /\ ~contains_token(host, last.param.token_id)

====
